---- MODULE Spec2Model ----
(***************************************************************************)
(* Weekly WhatsApp digest job (src/app.py) and the helpers of its archived *)
(* first version (src/archive/app-v0.1.py).                                *)
(*                                                                         *)
(* Python values are represented as follows.                               *)
(*   str            a sequence of Unicode code points (naturals); fixed    *)
(*                  literals and opaque library messages are TLA+ strings  *)
(*   Optional[x]    <<>> for None, <<x>> for a value                       *)
(*   list, dict     sequences (a dict keeps its insertion order)           *)
(***************************************************************************)
EXTENDS Integers, Sequences, FiniteSets, TLC

VARIABLES
    pc,                 \* position of the run inside main / process_week
    env,                \* environment variables read by __init__
    start_date,         \* the positional CLI argument
    table,              \* rows of WhatsAppExport the queries select
    exc,                \* the exception in flight, as its str()
    conn,               \* database connection: "none", "open", "closed"
    week,               \* (week_start, week_end, week_end_query)
    groups_data,        \* local of process_week
    error_message,      \* local of process_week
    editorial_summary,  \* local of process_week
    message_batches,    \* local of generate_editorial_summary
    batch_i,            \* loop index i of generate_editorial_summary
    batch_summaries,    \* local of generate_editorial_summary
    requests,           \* requests issued to the model so far
    saved,              \* content of thepack_summary_<week_start>.md
    sent,               \* payloads handed to send_to_bubble
    bubble_success,     \* value returned by send_to_bubble
    result,             \* value returned by process_week
    exit_code,          \* value returned by main
    call,               \* arguments of the helper call on record
    ret,                \* its result
    store               \* rows of the WeeklySummaries table of app-v0.1

runVars == <<pc, env, start_date, table, exc, conn, week, groups_data,
             error_message, editorial_summary, message_batches, batch_i,
             batch_summaries, requests, saved, sent, bubble_success, result,
             exit_code>>
fnVars == <<call, ret, store>>
vars == <<runVars, fnVars>>

----------------------------------------------------------------------------
(* Bounds of the model *)

MaxRows == 3          \* rows a query returns in a run
MaxOutLen == 3        \* characters of a final model response
MaxClampLen == 5      \* characters of a text given to clamp_words
MaxClampWords == 2    \* the ceiling given to clamp_words
MaxBatchRows == 5     \* rows behind a corpus given to prepare_weekly_message_data
MaxLines == 3         \* lines given to chunk_lines
MaxLineLen == 4       \* characters of such a line
MaxChars == 5         \* the ceiling given to chunk_lines
YearSpan == 1         \* years after 2024 a reference date is drawn from
MaxTextLen == 4       \* code points of a text given to remove_emojis
MaxTopicWords == 3    \* words of the first message of a corpus of topics
MaxStoreRows == 2     \* rows of the export table behind a run of app-v0.1

(* Program constants, scaled down so that the bounded inputs reach both    *)
(* sides of each: 150 messages per batch, 100 characters and 1,500 words   *)
(* of a summary, 1000 characters of a line.                                *)
batch_size == 2
MinSummaryLen == 2
MaxSummaryWords == 1
LineCap == 3

(* The topic statistics, scaled the same way: words of at least 4          *)
(* characters, the 50 most common words, 15 of them kept and 12 shown, and *)
(* a stop-word list of 42 words, here the three words aa, bb and ba.       *)
MinWordLen == 2
MostCommonCut == 4
TopicsKept == 3
TopicsShown == 2
stop_words == { <<97, 97>>, <<98, 98>>, <<98, 97>> }

(* app-v0.1: the 300 words of a group summary.                             *)
TARGET_WORDS_HIGH == 1

----------------------------------------------------------------------------
(* Generic helpers *)

None == <<>>
Some(x) == <<x>>
IsNone(o) == o = <<>>
Val(o) == o[1]

Min(a, b) == IF a <= b THEN a ELSE b

RECURSIVE SumSeq(_)
SumSeq(s) == IF s = <<>> THEN 0 ELSE Head(s) + SumSeq(Tail(s))

\* s[a:b] of Python, for 0 <= a
Slice(s, a, b) == SubSeq(s, a + 1, Min(b, Len(s)))

----------------------------------------------------------------------------
(* Text *)

\* str.isspace() of one code point; also what \s and \S of re decide
IsSpace(c) ==
    \/ c \in 9..13
    \/ c \in 28..32
    \/ c \in {133, 160, 5760, 8232, 8233, 8239, 8287, 12288}
    \/ c \in 8192..8202

RECURSIVE LStrip(_)
LStrip(t) == IF t # <<>> /\ IsSpace(Head(t)) THEN LStrip(Tail(t)) ELSE t

RECURSIVE RStrip(_)
RStrip(t) ==
    IF t # <<>> /\ IsSpace(t[Len(t)]) THEN RStrip(SubSeq(t, 1, Len(t) - 1)) ELSE t

\* str.strip()
Strip(t) == RStrip(LStrip(t))

\* the character class of emoji_pattern
InEmojiPattern(c) ==
    \/ c \in 127456..127487     \* 1F1E0-1F1FF
    \/ c \in 127744..128511     \* 1F300-1F5FF
    \/ c \in 128512..128591     \* 1F600-1F64F
    \/ c \in 128640..128767     \* 1F680-1F6FF
    \/ c \in 128768..128895     \* 1F700-1F77F
    \/ c \in 128896..129023     \* 1F780-1F7FF
    \/ c \in 129024..129279     \* 1F800-1F8FF
    \/ c \in 129280..129535     \* 1F900-1F9FF
    \/ c \in 129536..129647     \* 1FA00-1FA6F
    \/ c \in 129648..129791     \* 1FA70-1FAFF
    \/ c \in 9986..10160        \* 2702-27B0
    \/ c \in 9410..127569       \* 24C2-1F251

\* emoji_pattern.sub('', text).strip()
remove_emojis_StripFirst(text) == SelectSeq(Strip(text), LAMBDA c : ~InEmojiPattern(c))
remove_emojis_DropsBlanks(text) ==
    SelectSeq(text, LAMBDA c : ~InEmojiPattern(c) /\ ~IsSpace(c))
remove_emojis(text) == Strip(SelectSeq(text, LAMBDA c : ~InEmojiPattern(c)))

\* re.findall(r"\S+", t): the maximal runs of non-space characters
RECURSIVE Tokens(_)
Tokens(t) ==
    LET u == LStrip(t)
        RECURSIVE WordLen(_)
        WordLen(k) == IF k < Len(u) /\ ~IsSpace(u[k + 1]) THEN WordLen(k + 1) ELSE k
    IN  IF u = <<>> THEN <<>>
        ELSE <<SubSeq(u, 1, WordLen(0))>> \o Tokens(SubSeq(u, WordLen(0) + 1, Len(u)))

\* str.join
RECURSIVE Join(_, _)
Join(sep, parts) ==
    IF parts = <<>> THEN <<>>
    ELSE IF Len(parts) = 1 THEN parts[1]
    ELSE parts[1] \o sep \o Join(sep, Tail(parts))

----------------------------------------------------------------------------
(* Calendar: datetime.date as <<year, month, day>>.  A date string is held *)
(* as its three numeric fields; strptime rejects the fields that name no   *)
(* calendar day.  All dates are far from datetime.MAXYEAR.                 *)

IsLeap(y) == y % 4 = 0 /\ (y % 100 # 0 \/ y % 400 = 0)

DaysInMonth(y, m) ==
    IF m = 2 THEN (IF IsLeap(y) THEN 29 ELSE 28)
    ELSE IF m \in {4, 6, 9, 11} THEN 30 ELSE 31

DaysBeforeYear(y) ==
    (y - 1) * 365 + (y - 1) \div 4 - (y - 1) \div 100 + (y - 1) \div 400

RECURSIVE DaysBeforeMonth(_, _)
DaysBeforeMonth(y, m) ==
    IF m = 1 THEN 0 ELSE DaysBeforeMonth(y, m - 1) + DaysInMonth(y, m - 1)

\* date.toordinal()
toordinal(d) == DaysBeforeYear(d[1]) + DaysBeforeMonth(d[1], d[2]) + d[3]

\* date.fromordinal(n)
fromordinal(n) ==
    LET RECURSIVE YearOf(_)
        YearOf(y) == IF DaysBeforeYear(y + 1) < n THEN YearOf(y + 1) ELSE y
        RECURSIVE MonthOf(_, _)
        MonthOf(y, m) ==
            IF DaysBeforeMonth(y, m) + DaysInMonth(y, m) < n - DaysBeforeYear(y)
            THEN MonthOf(y, m + 1) ELSE m
        yy == YearOf((n - 1) \div 366 + 1)
        mm == MonthOf(yy, 1)
    IN  <<yy, mm, n - DaysBeforeYear(yy) - DaysBeforeMonth(yy, mm)>>

\* date.weekday(): Monday is 0
weekday_SundayZero(d) == toordinal(d) % 7
weekday(d) == (toordinal(d) + 6) % 7

\* date + timedelta(days=n)
PlusDays(d, n) == fromordinal(toordinal(d) + n)

\* datetime.strptime(s, '%Y-%m-%d') succeeds
ParsesAsDate(s) ==
    /\ s[1] \in 1..9999
    /\ s[2] \in 1..12
    /\ s[3] \in 1..DaysInMonth(s[1], s[2])

\* WhatsAppSummarizer.get_week_start_end: the triple it returns, or the
\* ValueError it raises
get_week_start_end_Lenient(start_date_str) ==
    LET monday == PlusDays(start_date_str, 0 - weekday(start_date_str))
    IN  [raised |-> None,
         week_start |-> monday,
         week_end_date |-> PlusDays(monday, 6),
         week_end_query |-> PlusDays(monday, 7)]
get_week_start_end_EndsSunday(start_date_str) ==
    IF ParsesAsDate(start_date_str)
    THEN LET days_since_monday == weekday(start_date_str)
             monday == PlusDays(start_date_str, 0 - days_since_monday)
             sunday == PlusDays(monday, 6)
         IN  [raised |-> None,
              week_start |-> monday,
              week_end_date |-> sunday,
              week_end_query |-> sunday]
    ELSE [raised |-> Some("Invalid date format. Use YYYY-MM-DD")]
get_week_start_end(start_date_str) ==
    IF ParsesAsDate(start_date_str)
    THEN LET days_since_monday == weekday(start_date_str)
             monday == PlusDays(start_date_str, 0 - days_since_monday)
             sunday == PlusDays(monday, 6)
         IN  [raised |-> None,
              week_start |-> monday,
              week_end_date |-> sunday,
              week_end_query |-> PlusDays(sunday, 1)]
    ELSE [raised |-> Some("Invalid date format. Use YYYY-MM-DD")]

\* monday_ist of app-v0.1: midnight IST of the Monday of d's week
monday_ist(d) ==
    LET base == [date |-> d, hour |-> 0, minute |-> 0, tz |-> "IST"]
    IN  [base EXCEPT !.date = PlusDays(d, 0 - weekday(base.date))]

\* compute_bounds of app-v0.1 for a given --week-start
compute_bounds(week_start_str) ==
    IF ParsesAsDate(week_start_str)
    THEN LET week_start_ist == monday_ist(week_start_str)
             week_end_ist ==
                 [week_start_ist EXCEPT !.date = PlusDays(week_start_ist.date, 7)]
         IN  [raised |-> None,
              week_start_ist |-> week_start_ist,
              week_end_ist |-> week_end_ist,
              week_start_date |-> week_start_ist.date]
    ELSE [raised |-> Some("--week-start must be YYYY-MM-DD")]

----------------------------------------------------------------------------
(* Corpus: get_indie_groups_data and prepare_weekly_message_data *)

GroupData(name) ==
    [group_name |-> name, message_count |-> 0, participants |-> {},
     links |-> <<>>, messages |-> <<>>]

\* position of key name in the dict d, 0 when absent
IndexOf(d, name) ==
    IF \E k \in 1..Len(d) : d[k].group_name = name
    THEN CHOOSE k \in 1..Len(d) : d[k].group_name = name
    ELSE 0

\* `if links:` -- neither NULL nor the empty string
Truthy(o) == ~IsNone(o) /\ Val(o) # <<>>

\* one iteration of `for row in rows`
AddRow_KeepsEmpty(d, row) ==
    LET d1 == IF IndexOf(d, row.GroupName) = 0
              THEN Append(d, GroupData(row.GroupName)) ELSE d
        k == IndexOf(d1, row.GroupName)
        g == d1[k]
    IN  [d1 EXCEPT ![k] =
           [g EXCEPT !.message_count = g.message_count + 1,
                     !.messages = Append(g.messages, remove_emojis(row.Message)),
                     !.links = IF Truthy(row.Links)
                               THEN Append(g.links, Val(row.Links))
                               ELSE g.links]]
AddRow(d, row) ==
    LET clean_message == remove_emojis(row.Message)
    IN  IF Strip(clean_message) = <<>> THEN d
        ELSE LET d1 == IF IndexOf(d, row.GroupName) = 0
                       THEN Append(d, GroupData(row.GroupName)) ELSE d
                 k == IndexOf(d1, row.GroupName)
                 g == d1[k]
             IN  [d1 EXCEPT ![k] =
                    [g EXCEPT !.message_count = g.message_count + 1,
                              !.messages = Append(g.messages, clean_message),
                              !.links = IF Truthy(row.Links)
                                        THEN Append(g.links, Val(row.Links))
                                        ELSE g.links]]

\* the loop over the rows of main_query
RECURSIVE CollectRows(_, _)
CollectRows(d, rows) ==
    IF rows = <<>> THEN d ELSE CollectRows(AddRow(d, Head(rows)), Tail(rows))

\* group_name.split(DOG)[-1]: the part after the last dog emoji
RECURSIVE LastSegment(_)
LastSegment(t) ==
    IF \E k \in 1..Len(t) : t[k] = 128054
    THEN LastSegment(SubSeq(t, (CHOOSE k \in 1..Len(t) : t[k] = 128054) + 1, Len(t)))
    ELSE t

group_short(group_name) ==
    IF Strip(LastSegment(group_name)) # <<>>
    THEN Strip(LastSegment(group_name)) ELSE group_name

\* f"[{group_short}] {msg}"
TagMessage(group_name, msg) == <<91>> \o group_short(group_name) \o <<93, 32>> \o msg

\* the list all_messages
RECURSIVE all_messages(_)
all_messages(d) ==
    IF d = <<>> THEN <<>>
    ELSE [k \in 1..Len(d[1].messages) |-> TagMessage(d[1].group_name, d[1].messages[k])]
         \o all_messages(Tail(d))

total_messages(d) == SumSeq([k \in 1..Len(d) |-> d[k].message_count])

MoreBatches ==
    "Analyze these messages and remember the key themes, issues, and discussions. I will send you more batches."
FinalBatch ==
    "This is the final batch. Now generate the complete weekly summary following your system instructions, incorporating insights from all batches."

\* batch_messages = all_messages[i:i + batch_size]
batch_messages_OffByOne(msgs, i) == Slice(msgs, i, i + batch_size - 1)
batch_messages(msgs, i) == Slice(msgs, i, i + batch_size)

\* total_batches = (len(all_messages) + batch_size - 1) // batch_size
total_batches_Floor(msgs) == Len(msgs) \div batch_size
total_batches(msgs) == (Len(msgs) + batch_size - 1) \div batch_size

\* str.lower(), on the ASCII letters
Lower(c) == IF c \in 65..90 THEN c + 32 ELSE c
lower(t) == [k \in 1..Len(t) |-> Lower(t[k])]

\* the class \w, on ASCII: letters, digits and the underscore
IsWordChar(c) == c \in (48..57) \cup (65..90) \cup {95} \cup (97..122)

\* re.findall(r'\b\w{4,}\b', t): the maximal runs of word characters that
\* have the minimum length, left to right
RECURSIVE findall_words(_)
findall_words(t) ==
    LET RECURSIVE RunLen(_)
        RunLen(k) == IF k < Len(t) /\ IsWordChar(t[k + 1]) THEN RunLen(k + 1) ELSE k
        n == RunLen(0)
    IN  IF t = <<>> THEN <<>>
        ELSE IF n = 0 THEN findall_words(Tail(t))
        ELSE (IF n >= MinWordLen THEN <<SubSeq(t, 1, n)>> ELSE <<>>)
             \o findall_words(SubSeq(t, n + 1, Len(t)))

\* the list all_words: the words of every message, group by group
RECURSIVE MessageWords(_)
MessageWords(msgs) ==
    IF msgs = <<>> THEN <<>>
    ELSE findall_words(lower(Head(msgs))) \o MessageWords(Tail(msgs))
RECURSIVE all_words(_)
all_words(d) ==
    IF d = <<>> THEN <<>> ELSE MessageWords(d[1].messages) \o all_words(Tail(d))

\* Counter(all_words): the counts, in the order the words first occur
RECURSIVE Counter(_, _)
Counter(acc, ws) ==
    IF ws = <<>> THEN acc
    ELSE IF \E k \in 1..Len(acc) : acc[k].word = Head(ws)
    THEN LET k == CHOOSE j \in 1..Len(acc) : acc[j].word = Head(ws)
         IN  Counter([acc EXCEPT ![k].count = @ + 1], Tail(ws))
    ELSE Counter(Append(acc, [word |-> Head(ws), count |-> 1]), Tail(ws))

\* Counter.most_common(n): the n largest counts, equal counts in the
\* order of the Counter
RECURSIVE most_common(_, _)
most_common(items, n) ==
    IF n = 0 \/ items = <<>> THEN <<>>
    ELSE LET k == CHOOSE j \in 1..Len(items) :
                     /\ \A i \in 1..Len(items) : items[i].count <= items[j].count
                     /\ \A i \in 1..(j - 1) : items[i].count < items[j].count
         IN  <<items[k]>>
             \o most_common(SubSeq(items, 1, k - 1) \o SubSeq(items, k + 1, Len(items)),
                            n - 1)

\* [x for x in items if x.word not in stop_words]
SelectSeq_NotStopWord(items) == SelectSeq(items, LAMBDA x : x.word \notin stop_words)

top_topics_FilterFirst(d) ==
    Slice(most_common(SelectSeq_NotStopWord(Counter(<<>>, all_words(d))), MostCommonCut),
          0, TopicsKept)

\* top_topics = [... for ... in word_freq.most_common(50)
\*               if word not in stop_words][:15]
top_topics(d) ==
    Slice(SelectSeq_NotStopWord(most_common(Counter(<<>>, all_words(d)), MostCommonCut)),
          0, TopicsKept)

\* the prompt built for the slice that starts at index i (0-based), as the
\* values interpolated into it; messages is chr(10).join(batch_messages),
\* top_topics the pairs of top_topics[:12].
batch_prompt(d, week_start, week_end, msgs, i) ==
    LET batch_num == (i \div batch_size) + 1
    IN  [week_start |-> week_start,
         week_end |-> week_end,
         groups |-> Len(d),
         total_messages |-> total_messages(d),
         top_topics |-> Slice(top_topics(d), 0, TopicsShown),
         batch_num |-> batch_num,
         total_batches |-> total_batches(msgs),
         n_messages |-> Len(batch_messages(msgs, i)),
         messages |-> Join(<<10>>, batch_messages(msgs, i)),
         closing |-> IF batch_num < total_batches(msgs) THEN MoreBatches ELSE FinalBatch]

\* range(0, len(all_messages), batch_size), as the list of its values
BatchStarts(n) == [k \in 1..((n + batch_size - 1) \div batch_size) |-> (k - 1) * batch_size]

prepare_weekly_message_data(d, week_start, week_end) ==
    LET msgs == all_messages(d)
        starts == BatchStarts(Len(msgs))
    IN  [k \in 1..Len(starts) |-> batch_prompt(d, week_start, week_end, msgs, starts[k])]

\* _generate_fallback_summary: the template with its interpolated values
generate_fallback_summary_NoCounts(d, week_start, week_end) ==
    [kind |-> "fallback",
     week_start |-> week_start,
     week_end |-> week_end,
     groups |-> 0,
     total_messages |-> 0]
generate_fallback_summary(d, week_start, week_end) ==
    [kind |-> "fallback",
     week_start |-> week_start,
     week_end |-> week_end,
     groups |-> Len(d),
     total_messages |-> total_messages(d)]

AiSummary(text) == [kind |-> "ai", text |-> text]

----------------------------------------------------------------------------
(* Delivery payload *)

\* Python truth value of an Optional[str] held as a TLA+ string
Nonempty(o) == ~IsNone(o) /\ Val(o) # ""

\* status="success" if not error_message else "error"
PayloadStatus_AlwaysSuccess(em) == "success"
PayloadStatus(em) == IF ~Nonempty(em) THEN "success" ELSE "error"

\* error_message=error_message if error_message else "", as the value the
\* field then holds (a payload field is kept in the Optional encoding, a
\* str being Some of it)
PayloadErrorMessage_PassThrough(em) == em
PayloadErrorMessage(em) == IF Nonempty(em) THEN em ELSE Some("")

total_links(d) == SumSeq([k \in 1..Len(d) |-> Len(d[k].links)])

\* the BubblePayload built in the finally block of process_week
BubblePayload(summary, wk, date, d, em) ==
    [summary_text |-> IF IsNone(summary) THEN [kind |-> "failed"] ELSE Val(summary),
     week_start |-> IF wk.week_start # <<>> THEN wk.week_start ELSE date,
     week_end |-> IF wk.week_end # <<>> THEN wk.week_end ELSE date,
     total_messages |-> IF d # <<>> THEN total_messages(d) ELSE 0,
     total_groups |-> IF d # <<>> THEN Len(d) ELSE 0,
     total_participants |-> 0,
     total_links |-> IF d # <<>> THEN total_links(d) ELSE 0,
     status |-> PayloadStatus(em),
     error_message |-> PayloadErrorMessage(em)]

----------------------------------------------------------------------------
(* Inputs of a run *)

Envs ==
    [DB_NAME : BOOLEAN, DB_USER : BOOLEAN, DB_PASSWORD : BOOLEAN,
     OPENAI_API_KEY : BOOLEAN, BUBBLE_ENDPOINT_URL : BOOLEAN]

\* 2025-08-06, and strings that name no calendar day
RunDates == {<<2025, 8, 6>>, <<2025, 2, 30>>, <<2025, 13, 1>>, <<2023, 2, 29>>}

\* "IPP <dog> 1", "IPP <dog> 2"
GroupNames == << <<73, 80, 80, 32, 128054, 32, 49>>, <<73, 80, 80, 32, 128054, 32, 50>> >>

MsgKinds == {"text", "emoji"}

\* the j-th message of the table: a letter followed by an emoji, or an
\* emoji followed by a blank
RawMessage(j, kind) == IF kind = "text" THEN <<96 + j, 128054>> ELSE <<128054, 32>>

\* result sets of main_query: ORDER BY GroupName, CreatedDate; the first
\* l rows carry a link, the later ones none
Tables ==
    UNION { { [j \in 1..n |->
                 [GroupName |-> IF j <= s THEN GroupNames[1] ELSE GroupNames[2],
                  Message |-> RawMessage(j, kinds[j]),
                  Links |-> IF j <= l THEN Some(<<117>>) ELSE None]] :
              s \in 0..n, kinds \in [1..n -> MsgKinds], l \in 0..n } :
            n \in 0..MaxRows }

\* texts the model may return
ThemeOutputs == {<<116>>, <<32, 117>>}
FinalOutputs == UNION { [1..n -> {97, 32}] : n \in 0..MaxOutLen }

NoWeek == [week_start |-> <<>>, week_end |-> <<>>, week_end_query |-> <<>>]

----------------------------------------------------------------------------
(* main and process_week *)

FnIdle == call = None /\ ret = None /\ store = <<>>

InitRun ==
    /\ pc = "main"
    /\ env \in Envs
    /\ start_date \in RunDates
    /\ table = None
    /\ exc = None
    /\ conn = "none"
    /\ week = NoWeek
    /\ groups_data = <<>>
    /\ error_message = None
    /\ editorial_summary = None
    /\ message_batches = <<>>
    /\ batch_i = 0
    /\ batch_summaries = <<>>
    /\ requests = <<>>
    /\ saved = None
    /\ sent = <<>>
    /\ bubble_success = None
    /\ result = None
    /\ exit_code = None
    /\ FnIdle

\* WhatsAppSummarizer(): setup_db_config and setup_openai_client raise
\* ValueError, which main turns into exit code 1
Construct_ExitZero ==
    /\ pc = "main"
    /\ IF env.DB_NAME /\ env.DB_USER /\ env.DB_PASSWORD /\ env.OPENAI_API_KEY
       THEN pc' = "process_week" /\ UNCHANGED exit_code
       ELSE pc' = "exit" /\ exit_code' = Some(0)
    /\ UNCHANGED <<env, start_date, table, exc, conn, week, groups_data,
                   error_message, editorial_summary, message_batches, batch_i,
                   batch_summaries, requests, saved, sent, bubble_success, result>>
    /\ UNCHANGED fnVars
Construct_Unchecked ==
    /\ pc = "main"
    /\ pc' = "process_week"
    /\ UNCHANGED <<env, start_date, table, exc, conn, week, groups_data,
                   error_message, editorial_summary, message_batches, batch_i,
                   batch_summaries, requests, saved, sent, bubble_success, result,
                   exit_code>>
    /\ UNCHANGED fnVars
Construct ==
    /\ pc = "main"
    /\ IF env.DB_NAME /\ env.DB_USER /\ env.DB_PASSWORD /\ env.OPENAI_API_KEY
       THEN pc' = "process_week" /\ UNCHANGED exit_code
       ELSE pc' = "exit" /\ exit_code' = Some(1)
    /\ UNCHANGED <<env, start_date, table, exc, conn, week, groups_data,
                   error_message, editorial_summary, message_batches, batch_i,
                   batch_summaries, requests, saved, sent, bubble_success, result>>
    /\ UNCHANGED fnVars

\* week_start, week_end, week_end_query = self.get_week_start_end(start_date)
GetWeek ==
    /\ pc = "process_week"
    /\ LET r == get_week_start_end(start_date)
       IN  IF IsNone(r.raised)
           THEN /\ week' = [week_start |-> r.week_start,
                            week_end |-> r.week_end_date,
                            week_end_query |-> r.week_end_query]
                /\ pc' = "connect"
                /\ UNCHANGED exc
           ELSE /\ exc' = r.raised
                /\ pc' = "except"
                /\ UNCHANGED week
    /\ UNCHANGED <<env, start_date, table, conn, groups_data,
                   error_message, editorial_summary, message_batches, batch_i,
                   batch_summaries, requests, saved, sent, bubble_success, result,
                   exit_code>>
    /\ UNCHANGED fnVars

\* conn = self.get_db_connection()
Connect ==
    /\ pc = "connect"
    /\ \/ conn' = "open" /\ pc' = "cursor" /\ UNCHANGED exc
       \/ exc' = Some("database connection failed") /\ pc' = "except" /\ UNCHANGED conn
    /\ UNCHANGED <<env, start_date, table, week, groups_data,
                   error_message, editorial_summary, message_batches, batch_i,
                   batch_summaries, requests, saved, sent, bubble_success, result,
                   exit_code>>
    /\ UNCHANGED fnVars

\* cursor = conn.cursor(), outside the try/finally that closes the connection
Cursor ==
    /\ pc = "cursor"
    /\ \/ pc' = "debug_query" /\ UNCHANGED exc
       \/ exc' = Some("cursor failed") /\ pc' = "except"
    /\ UNCHANGED <<env, start_date, table, conn, week, groups_data,
                   error_message, editorial_summary, message_batches, batch_i,
                   batch_summaries, requests, saved, sent, bubble_success, result,
                   exit_code>>
    /\ UNCHANGED fnVars

\* debug_query; `if not debug_results: return {}`; finally closes
DebugQuery ==
    /\ pc = "debug_query"
    /\ \/ \E t \in Tables :
            /\ table' = Some(t)
            /\ IF t = <<>>
               THEN groups_data' = <<>> /\ conn' = "closed" /\ pc' = "check_data"
               ELSE pc' = "main_query" /\ UNCHANGED <<groups_data, conn>>
            /\ UNCHANGED exc
       \/ /\ exc' = Some("query failed")
          /\ conn' = "closed"
          /\ pc' = "except"
          /\ UNCHANGED <<table, groups_data>>
    /\ UNCHANGED <<env, start_date, week,
                   error_message, editorial_summary, message_batches, batch_i,
                   batch_summaries, requests, saved, sent, bubble_success, result,
                   exit_code>>
    /\ UNCHANGED fnVars

\* main_query and the loop over its rows; finally closes
MainQuery ==
    /\ pc = "main_query"
    /\ \/ /\ groups_data' = CollectRows(<<>>, Val(table))
          /\ pc' = "check_data"
          /\ UNCHANGED exc
       \/ /\ exc' = Some("query failed")
          /\ pc' = "except"
          /\ UNCHANGED groups_data
    /\ conn' = "closed"
    /\ UNCHANGED <<env, start_date, table, week,
                   error_message, editorial_summary, message_batches, batch_i,
                   batch_summaries, requests, saved, sent, bubble_success, result,
                   exit_code>>
    /\ UNCHANGED fnVars

\* error_message = "No data found for this week"
NoDataMessage_None == None
NoDataMessage == Some("No data found for this week")

\* `if not groups_data:` ... else generate_editorial_summary, up to its loop
CheckData ==
    /\ pc = "check_data"
    /\ IF groups_data = <<>>
       THEN /\ error_message' = NoDataMessage
            /\ editorial_summary' =
                 Some(generate_fallback_summary(<<>>, week.week_start, week.week_end))
            /\ pc' = "save"
            /\ UNCHANGED <<message_batches, batch_i>>
       ELSE /\ message_batches' =
                 prepare_weekly_message_data(groups_data, week.week_start, week.week_end)
            /\ batch_i' = 1
            /\ pc' = "batch"
            /\ UNCHANGED <<error_message, editorial_summary>>
    /\ UNCHANGED <<env, start_date, table, exc, conn, week, groups_data,
                   batch_summaries, requests, saved, sent, bubble_success, result,
                   exit_code>>
    /\ UNCHANGED fnVars

\* f"Batch {i} themes:\n{batch_summary}"
BatchThemes(i, batch_summary) == [batch |-> i, themes |-> batch_summary]

\* the request for a non-final batch, with the content of the response it
\* got (None when the call raised)
ThemesRequest(response) ==
    [kind |-> "themes",
     batch_prompt |-> message_batches[batch_i],
     max_tokens |-> 300,
     response |-> response]

\* the request for the final batch; its response is the digest
FinalRequest_NoThemes ==
    [kind |-> "final",
     batch_prompt |-> message_batches[batch_i],
     previous_themes |-> <<>>,
     max_tokens |-> 2500]
FinalRequest ==
    [kind |-> "final",
     batch_prompt |-> message_batches[batch_i],
     previous_themes |-> batch_summaries,
     max_tokens |-> 2500]

\* a non-final batch: `if i < len(message_batches):`
SendBatch ==
    /\ pc = "batch"
    /\ batch_i < Len(message_batches)
    /\ \/ \E content \in ThemeOutputs :
            /\ requests' = Append(requests, ThemesRequest(Some(content)))
            /\ batch_summaries' =
                 Append(batch_summaries, BatchThemes(batch_i, Strip(content)))
            /\ batch_i' = batch_i + 1
            /\ UNCHANGED <<pc, exc>>
       \/ /\ requests' = Append(requests, ThemesRequest(None))
          /\ exc' = Some("model call failed")
          /\ pc' = "except"
          /\ UNCHANGED <<batch_summaries, batch_i>>
    /\ UNCHANGED <<env, start_date, table, conn, week, groups_data,
                   error_message, editorial_summary, message_batches,
                   saved, sent, bubble_success, result, exit_code>>
    /\ UNCHANGED fnVars

\* `if not editorial_summary or len(editorial_summary) < 100:`
TooShort_EmptyOnly(text) == text = <<>>
TooShort(text) == text = <<>> \/ Len(text) < MinSummaryLen

\* what generate_editorial_summary does with the content of the final
\* response: the text it returns, or None when it raises
FinalSummary(content) ==
    LET text == Strip(content)
    IN  IF TooShort(text) THEN None ELSE Some(text)

\* the final batch, the validation after the loop and the return; the call
\* fails when create() raises or the response has no content to strip
SendFinalBatch ==
    /\ pc = "batch"
    /\ batch_i = Len(message_batches)
    /\ requests' = Append(requests, FinalRequest)
    /\ \/ \E content \in FinalOutputs :
            /\ IF IsNone(FinalSummary(content))
               THEN /\ exc' = Some("Generated summary is too short or empty")
                    /\ pc' = "except"
                    /\ UNCHANGED editorial_summary
               ELSE /\ editorial_summary' = Some(AiSummary(Val(FinalSummary(content))))
                    /\ pc' = "save"
                    /\ UNCHANGED exc
       \/ /\ exc' = Some("model call failed")
          /\ pc' = "except"
          /\ UNCHANGED editorial_summary
    /\ UNCHANGED <<env, start_date, table, conn, week, groups_data,
                   error_message, message_batches, batch_i, batch_summaries,
                   saved, sent, bubble_success, result, exit_code>>
    /\ UNCHANGED fnVars

\* print, then save_summary_to_file, which swallows its own failure
Save ==
    /\ pc = "save"
    /\ \/ saved' = Some([week_start |-> week.week_start,
                         content |-> Val(editorial_summary)])
       \/ UNCHANGED saved
    /\ pc' = "finally"
    /\ UNCHANGED <<env, start_date, table, exc, conn, week, groups_data,
                   error_message, editorial_summary, message_batches, batch_i,
                   batch_summaries, requests, sent, bubble_success, result,
                   exit_code>>
    /\ UNCHANGED fnVars

\* the handler leaving process_week without its finally block
Except_SkipsDelivery ==
    /\ pc = "except"
    /\ error_message' = exc
    /\ editorial_summary' =
         Some(generate_fallback_summary(groups_data, week.week_start, week.week_end))
    /\ exc' = None
    /\ pc' = "return"
    /\ UNCHANGED <<env, start_date, table, conn, week, groups_data,
                   message_batches, batch_i, batch_summaries, requests,
                   saved, sent, bubble_success, result, exit_code>>
    /\ UNCHANGED fnVars

\* `except Exception as e:` of process_week
Except ==
    /\ pc = "except"
    /\ error_message' = exc
    /\ editorial_summary' =
         Some(generate_fallback_summary(groups_data, week.week_start, week.week_end))
    /\ exc' = None
    /\ pc' = "finally"
    /\ UNCHANGED <<env, start_date, table, conn, week, groups_data,
                   message_batches, batch_i, batch_summaries, requests,
                   saved, sent, bubble_success, result, exit_code>>
    /\ UNCHANGED fnVars

\* the ways the POST can end: a status below 400 with or without a JSON
\* body, a timeout, a status of 400 or more, a connection error, any other
\* exception
PostOutcomes == {"ok", "ok_not_json", "timeout", "http_error", "connection_error",
                 "other_error"}

\* without an endpoint no POST is made
OutcomesFor(endpoint) == IF endpoint THEN PostOutcomes ELSE {"no_post"}

\* send_to_bubble: the value it returns, or the exception it lets through
send_to_bubble_Propagates(endpoint, outcome) ==
    IF ~endpoint THEN [raised |-> None, value |-> FALSE]
    ELSE IF outcome \in {"ok", "ok_not_json"} THEN [raised |-> None, value |-> TRUE]
    ELSE IF outcome = "other_error" THEN [raised |-> Some("unexpected error")]
    ELSE [raised |-> None, value |-> FALSE]
send_to_bubble(endpoint, outcome) ==
    IF ~endpoint THEN [raised |-> None, value |-> FALSE]
    ELSE IF outcome \in {"ok", "ok_not_json"} THEN [raised |-> None, value |-> TRUE]
    ELSE IF outcome = "timeout" THEN [raised |-> None, value |-> FALSE]
    ELSE IF outcome \in {"http_error", "connection_error"}
         THEN [raised |-> None, value |-> FALSE]
    ELSE [raised |-> None, value |-> FALSE]

\* the finally block: build the payload, hand it to send_to_bubble; an
\* exception of the block is logged and bubble_success stays unassigned.
\* call and ret keep the arguments and the result of send_to_bubble.
Finally ==
    /\ pc = "finally"
    /\ LET payload == BubblePayload(editorial_summary, week, start_date, groups_data,
                                    error_message)
       IN  /\ sent' = Append(sent, payload)
           /\ \E outcome \in OutcomesFor(env.BUBBLE_ENDPOINT_URL) :
                 LET r == send_to_bubble(env.BUBBLE_ENDPOINT_URL, outcome)
                 IN  /\ call' = Some([fn |-> "send_to_bubble",
                                      payload |-> payload,
                                      endpoint |-> env.BUBBLE_ENDPOINT_URL,
                                      outcome |-> outcome])
                     /\ ret' = Some(r)
                     /\ bubble_success' = IF IsNone(r.raised) THEN Some(r.value) ELSE None
    /\ pc' = "return"
    /\ UNCHANGED <<env, start_date, table, exc, conn, week, groups_data,
                   error_message, editorial_summary, message_batches, batch_i,
                   batch_summaries, requests, saved, result, exit_code>>
    /\ UNCHANGED store

\* return error_message is None
Return_RequiresDelivery ==
    /\ pc = "return"
    /\ result' = Some(IsNone(error_message) /\ bubble_success = Some(TRUE))
    /\ pc' = "main_exit"
    /\ UNCHANGED <<env, start_date, table, exc, conn, week, groups_data,
                   error_message, editorial_summary, message_batches, batch_i,
                   batch_summaries, requests, saved, sent, bubble_success,
                   exit_code>>
    /\ UNCHANGED fnVars
Return ==
    /\ pc = "return"
    /\ result' = Some(IsNone(error_message))
    /\ pc' = "main_exit"
    /\ UNCHANGED <<env, start_date, table, exc, conn, week, groups_data,
                   error_message, editorial_summary, message_batches, batch_i,
                   batch_summaries, requests, saved, sent, bubble_success,
                   exit_code>>
    /\ UNCHANGED fnVars

\* `if success: return 0` / `else: return 1`
ExitCode_AlwaysZero(success) == 0
ExitCode(success) == IF success THEN 0 ELSE 1

\* main, after process_week has returned
MainExit ==
    /\ pc = "main_exit"
    /\ exit_code' = Some(ExitCode(Val(result)))
    /\ pc' = "exit"
    /\ UNCHANGED <<env, start_date, table, exc, conn, week, groups_data,
                   error_message, editorial_summary, message_batches, batch_i,
                   batch_summaries, requests, saved, sent, bubble_success, result>>
    /\ UNCHANGED fnVars

Next ==
    \/ Construct
    \/ GetWeek
    \/ Connect
    \/ Cursor
    \/ DebugQuery
    \/ MainQuery
    \/ CheckData
    \/ SendBatch
    \/ SendFinalBatch
    \/ Save
    \/ Except
    \/ Finally
    \/ Return
    \/ MainExit

Spec == InitRun /\ [][Next]_vars

----------------------------------------------------------------------------
(* Properties of a run *)

ConfigOk == env.DB_NAME /\ env.DB_USER /\ env.DB_PASSWORD /\ env.OPENAI_API_KEY

Raised(msgs) == ~IsNone(error_message) /\ Val(error_message) \in msgs

FetchErrors == {"database connection failed", "cursor failed", "query failed"}

\* the queries ran without error and selected no row
ZeroRows == table = Some(<<>>)

\* C1: once the summarizer is constructed, every run of process_week hands
\* exactly one payload to send_to_bubble, however the earlier stages ended:
\* never more than one, and exactly one from the moment process_week is
\* about to return.
C1_DeliveredExactlyOnce ==
    /\ Len(sent) <= 1
    /\ (pc \in {"return", "main_exit"} \/ (pc = "exit" /\ ConfigOk)) => Len(sent) = 1

C1_Witness ==
    /\ pc = "exit"
    /\ Len(sent) = 1
    /\ Raised({"Invalid date format. Use YYYY-MM-DD"})

\* C2: in every payload built by process_week the error_message field is a
\* string, never None, and it is the empty string when no error occurred.
C2_ErrorMessageIsString ==
    \A k \in 1..Len(sent) :
        /\ ~IsNone(sent[k].error_message)
        /\ IsNone(error_message) => sent[k].error_message = Some("")

C2_Witness ==
    /\ Len(sent) = 1
    /\ IsNone(error_message)
    /\ sent[1].error_message = Some("")
    /\ sent[1].summary_text.kind = "ai"

NoCounters(p) == p.total_messages = 0 /\ p.total_groups = 0 /\ p.total_links = 0

\* C3 as stated: with zero rows the fallback digest is delivered with all
\* counters 0, with status "success" when no fetch error occurred and
\* "error" when one did.
C3_Original ==
    \A k \in 1..Len(sent) :
        (ZeroRows \/ Raised(FetchErrors)) =>
            /\ sent[k].summary_text.kind = "fallback"
            /\ NoCounters(sent[k])
            /\ sent[k].status = (IF Raised(FetchErrors) THEN "error" ELSE "success")

\* C3, amended: with zero rows the fallback digest is delivered with all
\* counters 0 and the status is "error" in both cases; the error_message is
\* "No data found for this week" when no fetch error occurred and the fetch
\* error's message when one did.  Delivery is attempted in both cases.
C3_ZeroRowsDelivered ==
    /\ \A k \in 1..Len(sent) :
        (ZeroRows \/ Raised(FetchErrors)) =>
            /\ sent[k].summary_text =
                 generate_fallback_summary(<<>>, week.week_start, week.week_end)
            /\ NoCounters(sent[k])
            /\ sent[k].status = "error"
            /\ sent[k].error_message = error_message
            /\ ZeroRows => error_message = Some("No data found for this week")
    /\ (pc = "exit" /\ (ZeroRows \/ Raised(FetchErrors))) => Len(sent) = 1

C3_Witness ==
    /\ ZeroRows
    /\ Len(sent) = 1
    /\ sent[1].status = "error"
    /\ sent[1].summary_text.kind = "fallback"

\* every request made to the model raised: the first one did, and
\* generate_editorial_summary made no other
EveryModelCallRaised == Raised({"model call failed"}) /\ Len(requests) = 1

\* C4: if the model call raises for every batch of a non-empty corpus, the
\* run still completes, the delivered summary text is the template digest
\* (which is not empty) and main returns exit code 1.
C4_ModelFailureFallsBack ==
    EveryModelCallRaised =>
        /\ groups_data # <<>>
        /\ pc \in {"except", "finally", "return", "main_exit", "exit"}
        /\ \A k \in 1..Len(sent) :
              sent[k].summary_text =
                  generate_fallback_summary(groups_data, week.week_start, week.week_end)
        /\ pc = "exit" => Len(sent) = 1 /\ exit_code = Some(1)

C4_Witness ==
    /\ EveryModelCallRaised
    /\ Len(message_batches) > 1
    /\ pc = "exit"
    /\ exit_code = Some(1)
    /\ sent[1].summary_text.kind = "fallback"

\* C5: whatever text the model returns on the final batch, the digest
\* narrative that process_week delivers has at most the configured maximum
\* number of whitespace-delimited words.
C5_WordCeiling ==
    \A k \in 1..Len(sent) :
        sent[k].summary_text.kind = "ai" =>
            Len(Tokens(sent[k].summary_text.text)) <= MaxSummaryWords

----------------------------------------------------------------------------
(* Helpers of app-v0.1 *)

\* `text or ""`
OrEmpty(o) == IF IsNone(o) THEN <<>> ELSE Val(o)

word_count(s) == Len(Tokens(OrEmpty(s)))

\* clamp_words(text, max_words); text may be None
clamp_words_SpacedMarker(text, max_words) ==
    LET words == Tokens(OrEmpty(text))
    IN  IF Len(words) <= max_words THEN text
        ELSE Some(Join(<<32>>, Slice(words, 0, max_words)) \o <<32, 8230>>)
clamp_words(text, max_words) ==
    LET words == Tokens(OrEmpty(text))
    IN  IF Len(words) <= max_words THEN text
        ELSE Some(Join(<<32>>, Slice(words, 0, max_words)) \o <<8230>>)

\* ln if len(ln) <= 1000 else (ln[:1000] + " ...")
CapLine(ln) == IF Len(ln) <= LineCap THEN ln ELSE Slice(ln, 0, LineCap) \o <<32, 8230>>

\* size += len(ln) + 1
SizeAfter_NoSeparator(size, ln) == size + Len(ln)
SizeAfter(size, ln) == size + Len(ln) + 1

\* one iteration of the loop of chunk_lines over (chunks, buf, size)
ChunkStep(st, line, max_chars) ==
    LET ln == CapLine(line)
        st1 == IF st.size + Len(ln) + 1 > max_chars /\ st.buf # <<>>
               THEN [chunks |-> Append(st.chunks, Join(<<10>>, st.buf)),
                     buf |-> <<>>, size |-> 0]
               ELSE st
    IN  [st1 EXCEPT !.buf = Append(st1.buf, ln), !.size = SizeAfter(st1.size, ln)]

RECURSIVE ChunkLoop(_, _, _)
ChunkLoop(st, lines, max_chars) ==
    IF lines = <<>> THEN st
    ELSE ChunkLoop(ChunkStep(st, Head(lines), max_chars), Tail(lines), max_chars)

chunk_lines(lines, max_chars) ==
    LET st == ChunkLoop([chunks |-> <<>>, buf |-> <<>>, size |-> 0], lines, max_chars)
    IN  IF st.buf # <<>> THEN Append(st.chunks, Join(<<10>>, st.buf)) ELSE st.chunks

----------------------------------------------------------------------------
(* Helpers applied on their own: call holds the arguments, ret the result *)

RunIdleBut ==
    /\ pc = "idle"
    /\ env = [DB_NAME |-> FALSE, DB_USER |-> FALSE, DB_PASSWORD |-> FALSE,
              OPENAI_API_KEY |-> FALSE, BUBBLE_ENDPOINT_URL |-> FALSE]
    /\ start_date = <<>>
    /\ exc = None
    /\ conn = "none"
    /\ week = NoWeek
    /\ groups_data = <<>>
    /\ error_message = None
    /\ editorial_summary = None
    /\ message_batches = <<>>
    /\ batch_i = 0
    /\ batch_summaries = <<>>
    /\ requests = <<>>
    /\ saved = None
    /\ sent = <<>>
    /\ bubble_success = None
    /\ result = None
    /\ exit_code = None
RunIdle == RunIdleBut /\ table = None /\ store = <<>>

Called(fn) == ~IsNone(call) /\ Val(call).fn = fn
Returned(fn) == Called(fn) /\ ~IsNone(ret)
Pending(fn) == Called(fn) /\ IsNone(ret)

TextsOver(chars, n) == UNION { [1..k -> chars] : k \in 0..n }

\* texts of letters, blanks and line breaks, and None
ClampTexts == {None} \cup { Some(t) : t \in TextsOver({97, 32, 10}, MaxClampLen) }

InitClamp ==
    /\ RunIdle
    /\ \E text \in ClampTexts, max_words \in 1..MaxClampWords :
          call = Some([fn |-> "clamp_words", text |-> text, max_words |-> max_words])
    /\ ret = None

ApplyClampWords ==
    /\ Pending("clamp_words")
    /\ ret' = Some(clamp_words(Val(call).text, Val(call).max_words))
    /\ UNCHANGED <<call, store, runVars>>

SpecClamp == InitClamp /\ [][ApplyClampWords]_vars

\* C6: clamp_words(text, max_words), for every text and positive ceiling:
\* the result has at most max_words whitespace-delimited tokens; a text of
\* at most max_words tokens is returned unchanged; a longer one is cut to
\* its first max_words tokens and ends with the continuation marker.
C6_ClampWords ==
    Returned("clamp_words") =>
        LET text == Val(call).text
            max_words == Val(call).max_words
            words == Tokens(OrEmpty(text))
            out == Val(ret)
        IN  /\ word_count(out) <= max_words
            /\ Len(words) <= max_words => out = text
            /\ Len(words) > max_words =>
                 /\ ~IsNone(out)
                 /\ Val(out)[Len(Val(out))] = 8230
                 /\ Len(Tokens(Val(out))) = max_words
                 /\ \A k \in 1..(max_words - 1) : Tokens(Val(out))[k] = words[k]
                 /\ Tokens(Val(out))[max_words] = words[max_words] \o <<8230>>

C6_Witness ==
    /\ Returned("clamp_words")
    /\ Val(call).max_words = 2
    /\ word_count(Val(call).text) > 2
    /\ Val(ret) # Val(call).text

----------------------------------------------------------------------------
(* prepare_weekly_message_data and chunk_lines *)

\* result sets behind the corpora: no links
BatchTables ==
    UNION { { [j \in 1..n |->
                 [GroupName |-> IF j <= s THEN GroupNames[1] ELSE GroupNames[2],
                  Message |-> RawMessage(j, kinds[j]),
                  Links |-> None]] :
              s \in 0..n, kinds \in [1..n -> MsgKinds] } :
            n \in 0..MaxBatchRows }

\* the corpora get_indie_groups_data builds from them
Corpora == { CollectRows(<<>>, t) : t \in BatchTables }

\* lines as rows_to_lines builds them: never empty
ChunkInputs == UNION { [1..k -> TextsOver({97}, MaxLineLen) \ {<<>>}] : k \in 0..MaxLines }

InitBatch ==
    /\ RunIdle
    /\ \/ \E d \in Corpora :
            call = Some([fn |-> "prepare_weekly_message_data",
                         groups_data |-> d,
                         week_start |-> <<2025, 8, 4>>,
                         week_end |-> <<2025, 8, 10>>])
       \/ \E lines \in ChunkInputs, max_chars \in 1..MaxChars :
            call = Some([fn |-> "chunk_lines", lines |-> lines, max_chars |-> max_chars])
    /\ ret = None

ApplyPrepare ==
    /\ Pending("prepare_weekly_message_data")
    /\ ret' = Some(prepare_weekly_message_data(Val(call).groups_data,
                                               Val(call).week_start,
                                               Val(call).week_end))
    /\ UNCHANGED <<call, store, runVars>>

ApplyChunkLines ==
    /\ Pending("chunk_lines")
    /\ ret' = Some(chunk_lines(Val(call).lines, Val(call).max_chars))
    /\ UNCHANGED <<call, store, runVars>>

NextBatch == ApplyPrepare \/ ApplyChunkLines

SpecBatch == InitBatch /\ [][NextBatch]_vars

\* number of messages of the groups before group g
MessagesBefore(d, g) == SumSeq([h \in 1..(g - 1) |-> Len(d[h].messages)])

\* the flattened message list: groups in corpus order, the messages of a
\* group in insertion order, each carrying the short name of its group
Flattened(d) ==
    [p \in 1..SumSeq([h \in 1..Len(d) |-> Len(d[h].messages)]) |->
        LET g == CHOOSE h \in 1..Len(d) :
                    MessagesBefore(d, h) < p /\ p <= MessagesBefore(d, h) + Len(d[h].messages)
        IN  TagMessage(d[g].group_name, d[g].messages[p - MessagesBefore(d, g)])]

\* C7: the messages of all batches of prepare_weekly_message_data, put end
\* to end in batch order, are exactly the flattened message list: none is
\* lost, duplicated, reordered or split across two batches.  Batch k holds,
\* whole and in order, the messages from position First(k) of the flattened
\* list up to where batch k + 1 begins.
C7_BatchesReconstruct ==
    Returned("prepare_weekly_message_data") =>
        LET batches == Val(ret)
            flat == Flattened(Val(call).groups_data)
            First(k) == 1 + SumSeq([h \in 1..(k - 1) |-> batches[h].n_messages])
        IN  /\ SumSeq([k \in 1..Len(batches) |-> batches[k].n_messages]) = Len(flat)
            /\ \A k \in 1..Len(batches) :
                  batches[k].messages =
                      Join(<<10>>, SubSeq(flat, First(k), First(k) + batches[k].n_messages - 1))
            /\ Join(<<10>>, [k \in 1..Len(batches) |-> batches[k].messages])
                 = Join(<<10>>, flat)

C7_Witness ==
    /\ Returned("prepare_weekly_message_data")
    /\ Len(Val(call).groups_data) = 2
    /\ Len(Val(ret)) = 3
    /\ Val(ret)[3].n_messages = 1

\* C8: every batch is non-empty and within its ceiling -- batch_size
\* messages in prepare_weekly_message_data, max_chars characters of the
\* joined chunk in chunk_lines -- unless it consists of one single message
\* that alone exceeds the ceiling.
C8_CeilingRespected ==
    /\ Returned("prepare_weekly_message_data") =>
          \A k \in 1..Len(Val(ret)) :
              /\ Val(ret)[k].messages # <<>>
              /\ Val(ret)[k].n_messages \in 1..batch_size
    /\ Returned("chunk_lines") =>
          \A k \in 1..Len(Val(ret)) :
              /\ Val(ret)[k] # <<>>
              /\ \/ Len(Val(ret)[k]) <= Val(call).max_chars
                 \/ \E j \in 1..Len(Val(call).lines) :
                       Val(ret)[k] = CapLine(Val(call).lines[j])

C8_Witness ==
    /\ Returned("chunk_lines")
    /\ Len(Val(ret)) = 2
    /\ \E p \in 1..Len(Val(ret)[1]) : Val(ret)[1][p] = 10
    /\ Len(Val(ret)[1]) = Val(call).max_chars - 1
    /\ Len(Val(ret)[2]) > Val(call).max_chars

\* C9: of the N >= 1 batches of a corpus, batch k carries ordinal k and
\* total N; batch N, and no other, carries the final-batch instruction, and
\* every batch before it carries the more-batches-follow instruction.
C9_OrdinalsAndFinal ==
    Returned("prepare_weekly_message_data") =>
        LET batches == Val(ret)
            N == Len(batches)
        IN  /\ Val(call).groups_data # <<>> => N >= 1
            /\ \A k \in 1..N :
                  /\ batches[k].batch_num = k
                  /\ batches[k].total_batches = N
                  /\ k = N => batches[k].closing = FinalBatch
                  /\ k < N => batches[k].closing = MoreBatches
            /\ N >= 1 => Cardinality({k \in 1..N : batches[k].closing = FinalBatch}) = 1

C9_Witness ==
    /\ Returned("prepare_weekly_message_data")
    /\ Len(Val(ret)) = 3
    /\ Val(ret)[2].closing = MoreBatches
    /\ Val(ret)[3].closing = FinalBatch
    /\ Val(ret)[3].batch_num = 3

----------------------------------------------------------------------------
(* The weekly window *)

\* date strings: every year-month-day triple of fields around the calendar
WindowDates == { <<y, m, d>> : y \in 2024..(2024 + YearSpan), m \in 0..13, d \in 0..32 }

InitWindow ==
    /\ RunIdle
    /\ \E fn \in {"get_week_start_end", "compute_bounds"}, s \in WindowDates :
          call = Some([fn |-> fn, date |-> s])
    /\ ret = None

ApplyGetWeekStartEnd ==
    /\ Pending("get_week_start_end")
    /\ ret' = Some(get_week_start_end(Val(call).date))
    /\ UNCHANGED <<call, store, runVars>>

ApplyComputeBounds ==
    /\ Pending("compute_bounds")
    /\ ret' = Some(compute_bounds(Val(call).date))
    /\ UNCHANGED <<call, store, runVars>>

NextWindow == ApplyGetWeekStartEnd \/ ApplyComputeBounds

SpecWindow == InitWindow /\ [][NextWindow]_vars

\* the day after d, by the calendar
NextDay(d) ==
    IF d[3] < DaysInMonth(d[1], d[2]) THEN <<d[1], d[2], d[3] + 1>>
    ELSE IF d[2] < 12 THEN <<d[1], d[2] + 1, 1>>
    ELSE <<d[1] + 1, 1, 1>>

RECURSIVE DaysAfter(_, _)
DaysAfter(d, n) == IF n = 0 THEN d ELSE DaysAfter(NextDay(d), n - 1)

\* Zeller's congruence: 0 Saturday, 1 Sunday, 2 Monday, ...
Zeller(d) ==
    LET m == IF d[2] < 3 THEN d[2] + 12 ELSE d[2]
        y == IF d[2] < 3 THEN d[1] - 1 ELSE d[1]
        K == y % 100
        J == y \div 100
    IN  (d[3] + (13 * (m + 1)) \div 5 + K + K \div 4 + J \div 4 + 5 * J) % 7

IsMonday(d) == Zeller(d) = 2

\* start is the most recent Monday at or before ref, and end is 7 days on
IsWeekOf(ref, start, end) ==
    /\ IsMonday(start)
    /\ \E k \in 0..6 : DaysAfter(start, k) = ref
    /\ end = DaysAfter(start, 7)

\* C10: for every valid reference date the window start is the most recent
\* Monday at or before it and the exclusive end is exactly 7 days after the
\* start, in get_week_start_end as in compute_bounds; 2025-08-06 gives
\* 2025-08-04 and 2025-08-11.
C10_WindowIsMondayWeek ==
    /\ (Returned("get_week_start_end") /\ ParsesAsDate(Val(call).date)) =>
          /\ IsNone(Val(ret).raised)
          /\ IsWeekOf(Val(call).date, Val(ret).week_start, Val(ret).week_end_query)
          /\ Val(call).date = <<2025, 8, 6>> =>
                /\ Val(ret).week_start = <<2025, 8, 4>>
                /\ Val(ret).week_end_query = <<2025, 8, 11>>
    /\ (Returned("compute_bounds") /\ ParsesAsDate(Val(call).date)) =>
          /\ IsNone(Val(ret).raised)
          /\ IsWeekOf(Val(call).date, Val(ret).week_start_ist.date,
                      Val(ret).week_end_ist.date)
          /\ Val(ret).week_start_ist.hour = 0 /\ Val(ret).week_start_ist.minute = 0
          /\ Val(ret).week_end_ist.hour = 0 /\ Val(ret).week_end_ist.minute = 0
          /\ Val(call).date = <<2025, 8, 6>> =>
                /\ Val(ret).week_start_ist.date = <<2025, 8, 4>>
                /\ Val(ret).week_end_ist.date = <<2025, 8, 11>>

C10_Witness ==
    /\ Returned("get_week_start_end")
    /\ Val(call).date = <<2025, 8, 6>>
    /\ Val(ret).week_start = <<2025, 8, 4>>
    /\ Val(ret).week_end_query = <<2025, 8, 11>>

----------------------------------------------------------------------------
(* Fatal inputs and configuration *)

\* the three fields name a day of the calendar
NamesCalendarDay(s) ==
    /\ s[1] \in 1..9999
    /\ s[2] \in 1..12
    /\ s[3] \in 1..31
    /\ s[2] \in {4, 6, 9, 11} => s[3] <= 30
    /\ s[2] = 2 => s[3] <= 29
    /\ (s[2] = 2 /\ s[3] = 29) => (s[1] % 4 = 0 /\ (s[1] % 100 # 0 \/ s[1] % 400 = 0))

InvalidDateFormat == Some("Invalid date format. Use YYYY-MM-DD")

\* C11: a reference date that is no YYYY-MM-DD calendar date makes
\* get_week_start_end fail with the invalid-date-format error and return no
\* interval; the run then makes no data fetch and no model call and does
\* not report success.
C11_InvalidDateIsFatal ==
    (ConfigOk /\ ~NamesCalendarDay(start_date)) =>
        /\ week = NoWeek
        /\ conn = "none" /\ table = None
        /\ requests = <<>>
        /\ pc \in {"main", "process_week", "except", "finally", "return",
                   "main_exit", "exit"}
        /\ pc = "except" => exc = InvalidDateFormat
        /\ pc \in {"finally", "return", "main_exit", "exit"} =>
              error_message = InvalidDateFormat
        /\ ~IsNone(result) => Val(result) = FALSE
        /\ pc = "exit" => exit_code = Some(1)

C11_Witness ==
    /\ ConfigOk /\ start_date = <<2023, 2, 29>>
    /\ pc = "exit"
    /\ exit_code = Some(1)
    /\ sent[1].status = "error"

----------------------------------------------------------------------------
(* remove_emojis *)

\* a letter, a blank, a no-break space, a zero-width joiner, an ideographic
\* space (inside 24C2-1F251) and the dog face
SanitizeChars == {97, 32, 160, 8205, 12288, 128054}

InitSanitize ==
    /\ RunIdle
    /\ \E text \in TextsOver(SanitizeChars, MaxTextLen) :
          call = Some([fn |-> "remove_emojis", text |-> text])
    /\ ret = None

ApplyRemoveEmojis ==
    /\ Pending("remove_emojis")
    /\ ret' = Some(remove_emojis(Val(call).text))
    /\ UNCHANGED <<call, store, runVars>>

SpecSanitize == InitSanitize /\ [][ApplyRemoveEmojis]_vars

\* the ranges of the pattern, first and last code point of each
RemovedRanges ==
    { <<127456, 127487>>, <<127744, 128511>>, <<128512, 128591>>,
      <<128640, 128767>>, <<128768, 128895>>, <<128896, 129023>>,
      <<129024, 129279>>, <<129280, 129535>>, <<129536, 129647>>,
      <<129648, 129791>>, <<9986, 10160>>, <<9410, 127569>> }

\* text has no code point of the removed ranges
IsClean(text) ==
    \A k \in 1..Len(text) : \A r \in RemovedRanges : text[k] < r[1] \/ text[k] > r[2]

\* text neither begins nor ends with white space
IsTrimmed(text) == text = <<>> \/ (~IsSpace(text[1]) /\ ~IsSpace(text[Len(text)]))

\* C12: remove_emojis is idempotent: applied to its own result it returns
\* that result.
C12_Idempotent ==
    Returned("remove_emojis") => remove_emojis(Val(ret)) = Val(ret)

C12_Witness ==
    /\ Returned("remove_emojis")
    /\ Val(call).text = <<32, 128054, 32, 97>>
    /\ Val(ret) = <<97>>

\* C13 as stated: a text with no code point of the removed ranges is
\* returned unchanged.
C13_Original ==
    (Returned("remove_emojis") /\ IsClean(Val(call).text)) => Val(ret) = Val(call).text

\* C13, amended: a text with no code point of the removed ranges is
\* returned with its leading and trailing white space removed and nothing
\* else changed; it is returned unchanged exactly when it neither begins
\* nor ends with white space.
C13_CleanTextIsTrimmed ==
    (Returned("remove_emojis") /\ IsClean(Val(call).text)) =>
        LET text == Val(call).text
            out == Val(ret)
        IN  /\ IsTrimmed(out)
            /\ \E a \in 0..Len(text), b \in 0..Len(text) :
                  /\ a + Len(out) + b = Len(text)
                  /\ \A k \in 1..a : IsSpace(text[k])
                  /\ \A k \in 1..Len(out) : out[k] = text[a + k]
                  /\ \A k \in 1..b : IsSpace(text[a + Len(out) + k])
            /\ (out = text) <=> IsTrimmed(text)

C13_Witness ==
    /\ Returned("remove_emojis")
    /\ Val(call).text = <<32, 97, 160, 97>>
    /\ Val(ret) = <<97, 160, 97>>

----------------------------------------------------------------------------
(* The corpus built from the fetched rows *)

\* both queries ran without error
Fetched ==
    /\ ~IsNone(table)
    /\ pc \notin {"debug_query", "main_query"}
    /\ exc # Some("query failed")
    /\ error_message # Some("query failed")

\* the row's message is empty after sanitization
IsDropped(row) == remove_emojis(row.Message) = <<>>

\* the rows of group name that are not dropped, in the order fetched
KeptRows(rows, name) ==
    SelectSeq(rows, LAMBDA r : r.GroupName = name /\ ~IsDropped(r))

\* C14: a fetched row whose message is empty after sanitization is dropped:
\* each group of the corpus holds the messages, the count and the links of
\* its other rows only, and a group all of whose rows are dropped is not in
\* the corpus.
C14_EmptyRowsDropped ==
    Fetched =>
        LET rows == Val(table)
        IN  /\ \A k \in 1..Len(groups_data) :
                  LET g == groups_data[k]
                      kept == KeptRows(rows, g.group_name)
                      linked == SelectSeq(kept, LAMBDA r : r.Links \notin {None, Some(<<>>)})
                  IN  /\ kept # <<>>
                      /\ g.messages = [j \in 1..Len(kept) |-> remove_emojis(kept[j].Message)]
                      /\ g.message_count = Len(kept)
                      /\ g.links = [j \in 1..Len(linked) |-> Val(linked[j].Links)]
                      /\ \A h \in 1..Len(groups_data) :
                            groups_data[h].group_name = g.group_name => h = k
            /\ \A j \in 1..Len(rows) :
                  ~IsDropped(rows[j]) =>
                     \E k \in 1..Len(groups_data) :
                        groups_data[k].group_name = rows[j].GroupName

C14_Witness ==
    /\ Fetched
    /\ Len(Val(table)) = 3
    /\ Val(table)[1].GroupName # Val(table)[3].GroupName
    /\ IsDropped(Val(table)[1]) /\ Val(table)[1].Links # None
    /\ Len(groups_data) = 1
    /\ groups_data[1].message_count = 2

----------------------------------------------------------------------------
(* Delivery *)

\* C15: send_to_bubble always returns a boolean and never raises; it
\* returns True only when the POST completed with a non-error status, and
\* False when no endpoint is configured, on a timeout, on an HTTP or
\* connection error and on any other exception.
C15_SendReturnsBoolean ==
    Returned("send_to_bubble") =>
        LET endpoint == Val(call).endpoint
            outcome == Val(call).outcome
            r == Val(ret)
        IN  /\ IsNone(r.raised)
            /\ r.value \in BOOLEAN
            /\ bubble_success = Some(r.value)
            /\ r.value => (endpoint /\ outcome \in {"ok", "ok_not_json"})
            /\ ~endpoint => ~r.value
            /\ outcome \in {"timeout", "http_error", "connection_error", "other_error"}
                  => ~r.value
            /\ (endpoint /\ outcome \in {"ok", "ok_not_json"}) => r.value

C15_Witness ==
    /\ Returned("send_to_bubble")
    /\ Val(call).endpoint
    /\ Val(call).outcome = "other_error"
    /\ Val(ret).value = FALSE
    /\ Val(call).payload.status = "success"

\* C16: the outcome of delivery never changes the run's result: the
\* delivery step leaves the error and the digest of the run as they were,
\* and process_week's return value and main's exit code are determined by
\* that error alone, whichever way the POST ended.
C16_DeliveryDoesNotChangeResult ==
    /\ [][pc = "finally" =>
             /\ error_message' = error_message
             /\ editorial_summary' = editorial_summary
             /\ pc' = "return"]_vars
    /\ [](~IsNone(result) => Val(result) = IsNone(error_message))
    /\ []((pc = "exit" /\ ~IsNone(result)) =>
             exit_code = Some(IF IsNone(error_message) THEN 0 ELSE 1))

C16_Witness ==
    /\ pc = "exit"
    /\ Returned("send_to_bubble") /\ Val(call).outcome = "timeout"
    /\ bubble_success = Some(FALSE)
    /\ result = Some(TRUE)
    /\ exit_code = Some(0)

----------------------------------------------------------------------------
(* Exit codes and startup *)

\* the run produced the model's digest and recorded no error
FullSuccess ==
    /\ ConfigOk
    /\ ~IsNone(editorial_summary) /\ Val(editorial_summary).kind = "ai"
    /\ IsNone(error_message)

\* the run ended with the template digest
FallbackTaken == ~IsNone(editorial_summary) /\ Val(editorial_summary).kind = "fallback"

\* C17: main returns exit code 0 exactly when the run succeeded fully (the
\* model's digest was produced and no error recorded), 1 when the fallback
\* path was taken, and a non-zero code when startup fails.
C17_ExitCodes ==
    pc = "exit" =>
        /\ exit_code \in {Some(0), Some(1)}
        /\ (exit_code = Some(0)) <=> FullSuccess
        /\ FallbackTaken => exit_code = Some(1)
        /\ ~ConfigOk => (exit_code # Some(0) /\ IsNone(result))

C17_Witness ==
    /\ pc = "exit"
    /\ FullSuccess
    /\ exit_code = Some(0)
    /\ Len(requests) = 2
    /\ saved = None

\* C18: if a required database setting or the model API key is missing, the
\* construction of the summarizer fails before any work: no database
\* connection is opened, no model call made and no delivery attempted.
C18_MissingConfigAborts ==
    ~ConfigOk =>
        /\ pc \in {"main", "exit"}
        /\ conn = "none" /\ table = None
        /\ requests = <<>>
        /\ sent = <<>> /\ IsNone(call) /\ IsNone(bubble_success)
        /\ saved = None
        /\ pc = "exit" => exit_code = Some(1)

C18_Witness ==
    /\ pc = "exit"
    /\ env.DB_NAME /\ env.DB_USER /\ ~env.DB_PASSWORD /\ env.OPENAI_API_KEY
    /\ sent = <<>>
    /\ exit_code = Some(1)

----------------------------------------------------------------------------
(* generate_editorial_summary on corpora of up to three batches *)

\* process_week after get_indie_groups_data has returned
InitSummarize ==
    /\ pc = "check_data"
    /\ env = [DB_NAME |-> TRUE, DB_USER |-> TRUE, DB_PASSWORD |-> TRUE,
              OPENAI_API_KEY |-> TRUE, BUBBLE_ENDPOINT_URL |-> TRUE]
    /\ start_date = <<2025, 8, 6>>
    /\ \E t \in BatchTables :
          /\ table = Some(t)
          /\ groups_data = CollectRows(<<>>, t)
    /\ exc = None
    /\ conn = "closed"
    /\ week = [week_start |-> <<2025, 8, 4>>, week_end |-> <<2025, 8, 10>>,
               week_end_query |-> <<2025, 8, 11>>]
    /\ error_message = None
    /\ editorial_summary = None
    /\ message_batches = <<>>
    /\ batch_i = 0
    /\ batch_summaries = <<>>
    /\ requests = <<>>
    /\ saved = None
    /\ sent = <<>>
    /\ bubble_success = None
    /\ result = None
    /\ exit_code = None
    /\ FnIdle

NextSummarize == CheckData \/ SendBatch \/ SendFinalBatch

SpecSummarize == InitSummarize /\ [][NextSummarize]_vars

\* the last request made raised
LastCallRaised == exc = Some("model call failed")

\* C19: a model call that fails on a non-final batch does not end the
\* summarization: only a failure on the final batch sends the run to the
\* fallback.
C19_NonFinalFailureDegrades ==
    LastCallRaised => requests[Len(requests)].kind = "final"

\* C20: the batches are sent in order 1..N, each request only after the
\* one before it returned; the final request is issued at most once, after
\* the N-1 others, and carries the partial theme summaries of batches
\* 1..N-1 in batch order.
C20_RequestsInOrder ==
    LET N == Len(message_batches)
    IN  /\ Len(requests) <= N
        /\ Cardinality({k \in 1..Len(requests) : requests[k].kind = "final"}) <= 1
        /\ \A k \in 1..Len(requests) :
              /\ requests[k].batch_prompt = message_batches[k]
              /\ requests[k].batch_prompt.batch_num = k
              /\ requests[k].kind = (IF k < N THEN "themes" ELSE "final")
              /\ k < Len(requests) => ~IsNone(requests[k].response)
              /\ requests[k].kind = "final" =>
                    /\ Len(requests[k].previous_themes) = N - 1
                    /\ \A j \in 1..(N - 1) :
                          requests[k].previous_themes[j] =
                              [batch |-> j,
                               themes |-> Strip(Val(requests[j].response))]

C20_Witness ==
    /\ Len(requests) = 3
    /\ requests[3].kind = "final"
    /\ requests[3].previous_themes[1].themes # requests[3].previous_themes[2].themes
    /\ pc = "save"

----------------------------------------------------------------------------
(* Validation of the final output (src/app.py:567-584) *)

\* the validation after the loop raised
ValidationRaised == "Generated summary is too short or empty"

----------------------------------------------------------------------------
(* Topic statistics (src/app.py:440-448, 470) *)

\* the words messages are made of: two stop words and a third, a
\* capitalised word, a fifth word and one too short to count
TopicVocabulary == { <<97, 97>>, <<98, 98>>, <<98, 97>>, <<65, 98>>, <<99, 99>>, <<97>> }

\* messages of up to n words
TopicTexts(n) ==
    { Join(<<32>>, ws) : ws \in UNION { [1..k -> TopicVocabulary] : k \in 0..n } }

\* one row in each of two groups
TopicTables ==
    { << [GroupName |-> GroupNames[1], Message |-> m1, Links |-> None],
         [GroupName |-> GroupNames[2], Message |-> m2, Links |-> None] >> :
      m1 \in TopicTexts(MaxTopicWords), m2 \in TopicTexts(2) }

\* the corpora get_indie_groups_data builds from them; process_week hands
\* no empty corpus to the summarizer
TopicCorpora == { CollectRows(<<>>, t) : t \in TopicTables } \ {<<>>}

InitTopics ==
    /\ RunIdle
    /\ \E d \in TopicCorpora :
          call = Some([fn |-> "prepare_weekly_message_data",
                       groups_data |-> d,
                       week_start |-> <<2025, 8, 4>>,
                       week_end |-> <<2025, 8, 10>>])
    /\ ret = None

SpecTopics == InitTopics /\ [][ApplyPrepare]_vars

\* the words of the corpus as a reader counts them: the tokens between
\* blanks of every message, in lower case (the messages drawn hold
\* letters and blanks only)
RECURSIVE TokensOf(_)
TokensOf(msgs) ==
    IF msgs = <<>> THEN <<>> ELSE Tokens(lower(Head(msgs))) \o TokensOf(Tail(msgs))
RECURSIVE CorpusTokens(_)
CorpusTokens(d) ==
    IF d = <<>> THEN <<>> ELSE TokensOf(d[1].messages) \o CorpusTokens(Tail(d))

\* those of them long enough to be counted
LongTokens(d) == SelectSeq(CorpusTokens(d), LAMBDA w : Len(w) >= MinWordLen)

\* occurrences of the word w in the list ws
Occurrences(ws, w) == Cardinality({ k \in 1..Len(ws) : ws[k] = w })

\* the words of ws that are not stop words
FreeWords(ws) == { ws[k] : k \in 1..Len(ws) } \ stop_words

\* v ranks before w: a higher count, or the same count and an earlier
\* first occurrence
RanksBefore(ws, v, w) ==
    LET First(x) == CHOOSE k \in 1..Len(ws) : ws[k] = x /\ \A j \in 1..(k - 1) : ws[j] # x
    IN  \/ Occurrences(ws, v) > Occurrences(ws, w)
        \/ Occurrences(ws, v) = Occurrences(ws, w) /\ First(v) < First(w)

\* the n first-ranked words of ws
TopRanked(ws, n) ==
    LET All == { ws[k] : k \in 1..Len(ws) }
    IN  { w \in All : Cardinality({ v \in All : RanksBefore(ws, v, w) }) < n }

\* the list tt holds words of ws with their counts, none of them a stop
\* word, none twice, in non-increasing order of count, and no word of ws
\* outside the stop list with a higher count than a listed word is missing
RankedFreeWords(tt, ws) ==
    LET listed == { tt[k].word : k \in 1..Len(tt) }
    IN  /\ \A k \in 1..Len(tt) :
              /\ tt[k].word \in FreeWords(ws)
              /\ tt[k].count = Occurrences(ws, tt[k].word)
              /\ \A j \in 1..(k - 1) :
                    tt[j].word # tt[k].word /\ tt[j].count >= tt[k].count
        /\ \A w \in FreeWords(ws) \ listed :
              \A k \in 1..Len(tt) : Occurrences(ws, w) <= tt[k].count

\* C22 as stated: the topic statistics of every prompt are at most K of the
\* words of all messages, none of them a stop word, in non-increasing order
\* of frequency, and no word outside the stop list with a higher count than
\* a listed word is missing.
C22_Original ==
    Returned("prepare_weekly_message_data") =>
        \A b \in 1..Len(Val(ret)) :
            /\ Len(Val(ret)[b].top_topics) <= TopicsShown
            /\ RankedFreeWords(Val(ret)[b].top_topics,
                               CorpusTokens(Val(call).groups_data))

\* C22, amended: the same holds of the words that are counted, the runs of
\* at least the minimum number of word characters of the lower-cased
\* messages; shorter words are never listed.  The list holds the first K
\* words outside the stop list among the most frequent counted words up to
\* the cut made before the stop words are dropped (equal counts in the
\* order of first occurrence), so it may be shorter than K while further
\* words outside the stop list exist.
C22_TopicsRankCountedWords ==
    Returned("prepare_weekly_message_data") =>
        LET ws == LongTokens(Val(call).groups_data)
            top == TopRanked(ws, MostCommonCut) \ stop_words
        IN  \A b \in 1..Len(Val(ret)) :
              LET tt == Val(ret)[b].top_topics
              IN  /\ RankedFreeWords(tt, ws)
                  /\ Len(tt) = Min(TopicsShown, Cardinality(top))
                  /\ \A k \in 1..Len(tt) :
                        /\ tt[k].word \in top
                        /\ Len(tt[k].word) >= MinWordLen
                        /\ \A j \in 1..(k - 1) : RanksBefore(ws, tt[j].word, tt[k].word)
                        /\ \A w \in top : RanksBefore(ws, w, tt[k].word) =>
                              \E j \in 1..(k - 1) : tt[j].word = w

\* two words of different counts are listed and a short word occurs more
\* often than the second of them
C22_Witness ==
    /\ Returned("prepare_weekly_message_data")
    /\ LET ws == CorpusTokens(Val(call).groups_data)
           tt == Val(ret)[1].top_topics
       IN  /\ Len(tt) = TopicsShown
           /\ tt[1].count > tt[2].count
           /\ Occurrences(ws, <<97>>) > tt[2].count

----------------------------------------------------------------------------
(* The weekly windows as a partition of the calendar                       *)
(* (src/app.py:345-362, 392-401)                                           *)

\* a is an earlier day than b
DateLt(a, b) ==
    \/ a[1] < b[1]
    \/ a[1] = b[1] /\ a[2] < b[2]
    \/ a[1] = b[1] /\ a[2] = b[2] /\ a[3] < b[3]

DateLe(a, b) == a = b \/ DateLt(a, b)

\* the day e lies in the window w: CreatedDate >= week_start and
\* CreatedDate < week_end_query
InWindow(e, w) == DateLe(w.week_start, e) /\ DateLt(e, w.week_end_query)

\* the reference dates that parse, each with its window
WindowOf == [ e \in { s \in WindowDates : ParsesAsDate(s) } |-> get_week_start_end(e) ]

\* C23: the weekly windows partition the calendar: a reference date lies in
\* its own window, every day inside that window has the same window, and
\* the windows of two reference dates are the same or have no day in
\* common.
C23_WindowsPartition ==
    (Returned("get_week_start_end") /\ ParsesAsDate(Val(call).date)) =>
        LET d == Val(call).date
            w == Val(ret)
        IN  /\ InWindow(d, w)
            /\ \A k \in 0..6 :
                  /\ InWindow(DaysAfter(w.week_start, k), w)
                  /\ get_week_start_end(DaysAfter(w.week_start, k)) = w
            /\ ~InWindow(DaysAfter(w.week_start, 7), w)
            /\ \A e \in DOMAIN WindowOf :
                  /\ InWindow(e, w) => WindowOf[e] = w
                  /\ \/ WindowOf[e] = w
                     \/ DateLe(WindowOf[e].week_end_query, w.week_start)
                     \/ DateLe(w.week_end_query, WindowOf[e].week_start)

\* a window that runs over the end of a year
C23_Witness ==
    /\ Returned("get_week_start_end")
    /\ Val(call).date = <<2024, 12, 31>>
    /\ Val(ret).week_start = <<2024, 12, 30>>
    /\ Val(ret).week_end_query = <<2025, 1, 6>>
    /\ WindowOf[<<2025, 1, 5>>] = Val(ret)
    /\ WindowOf[<<2025, 1, 6>>] # Val(ret)

----------------------------------------------------------------------------
(* Counts of the fallback after a failed summarization                     *)
(* (src/app.py:586-609, 697-724)                                           *)

\* the fetch succeeded and the model pipeline then failed
ModelPipelineFailed == Raised({"model call failed", ValidationRaised})

\* the usable rows of the table: those not dropped
UsableRows(rows) == { j \in 1..Len(rows) : ~IsDropped(rows[j]) }

\* C24: when the fetch succeeded with G groups and M usable messages and
\* the model pipeline then fails, the fallback digest states G groups and M
\* messages and the payload carries total_groups = G and total_messages =
\* M, neither of them zero, with status "error".
C24_FallbackKeepsCounts ==
    ModelPipelineFailed =>
        LET rows == Val(table)
            M == Cardinality(UsableRows(rows))
            G == Cardinality({ rows[j].GroupName : j \in UsableRows(rows) })
        IN  /\ M > 0 /\ G > 0
            /\ Val(editorial_summary).kind = "fallback"
            /\ Val(editorial_summary).groups = G
            /\ Val(editorial_summary).total_messages = M
            /\ \A k \in 1..Len(sent) :
                  /\ sent[k].summary_text = Val(editorial_summary)
                  /\ sent[k].total_groups = G
                  /\ sent[k].total_messages = M
                  /\ sent[k].status = "error"
            /\ pc \in {"return", "main_exit", "exit"} => Len(sent) = 1

\* one of three rows was dropped, the two others are of two groups
C24_Witness ==
    /\ ModelPipelineFailed
    /\ Len(Val(table)) = 3
    /\ Len(sent) = 1
    /\ sent[1].total_groups = 2
    /\ sent[1].total_messages = 2
    /\ sent[1].summary_text.groups = 2
    /\ sent[1].summary_text.total_messages = 2
    /\ sent[1].status = "error"

----------------------------------------------------------------------------
(* Chunks against the lines they were made of                              *)
(* (src/archive/app-v0.1.py:270-283)                                       *)

\* str.split("\n")
RECURSIVE SplitLines(_)
SplitLines(t) ==
    IF \E p \in 1..Len(t) : t[p] = 10
    THEN LET p == CHOOSE q \in 1..Len(t) : t[q] = 10 /\ \A r \in 1..(q - 1) : t[r] # 10
         IN  <<SubSeq(t, 1, p - 1)>> \o SplitLines(SubSeq(t, p + 1, Len(t)))
    ELSE <<t>>

\* the pieces of every chunk, in chunk order
RECURSIVE Pieces(_)
Pieces(chunks) ==
    IF chunks = <<>> THEN <<>> ELSE SplitLines(Head(chunks)) \o Pieces(Tail(chunks))

\* C25: splitting every chunk chunk_lines returns at its line separators
\* and concatenating the pieces in chunk order gives back exactly the list
\* of lines it was given, each line unchanged.
C25_ChunksGiveBackLines ==
    Returned("chunk_lines") => Pieces(Val(ret)) = Val(call).lines

----------------------------------------------------------------------------
(* The weekly run of app-v0.1 and its summaries table                      *)
(* (src/archive/app-v0.1.py:166-254, 397-498)                              *)

\* order_key: the number a group name ends with, 0 when it ends with none
RECURSIVE TrailingNumber(_)
TrailingNumber(t) ==
    IF t = <<>> \/ t[Len(t)] \notin 48..57 THEN 0
    ELSE TrailingNumber(SubSeq(t, 1, Len(t) - 1)) * 10 + (t[Len(t)] - 48)
order_key(name) == TrailingNumber(RStrip(name))

\* names.sort(key=order_key): a stable sort
RECURSIVE SortByOrderKey(_)
SortByOrderKey(names) ==
    IF names = <<>> THEN <<>>
    ELSE LET k == CHOOSE j \in 1..Len(names) :
                     /\ \A i \in 1..Len(names) : order_key(names[j]) <= order_key(names[i])
                     /\ \A i \in 1..(j - 1) : order_key(names[j]) < order_key(names[i])
         IN  <<names[k]>>
             \o SortByOrderKey(SubSeq(names, 1, k - 1) \o SubSeq(names, k + 1, Len(names)))

\* SELECT DISTINCT GroupName, in the order of the export table
RECURSIVE DistinctNames(_, _)
DistinctNames(acc, rows) ==
    IF rows = <<>> THEN acc
    ELSE IF \E k \in 1..Len(acc) : acc[k] = Head(rows).GroupName
    THEN DistinctNames(acc, Tail(rows))
    ELSE DistinctNames(Append(acc, Head(rows).GroupName), Tail(rows))

discover_indie_group_names(export) == SortByOrderKey(DistinctNames(<<>>, export))

\* fetch_group_rows: the rows of the group with dt_from <= CreatedDate < dt_to
fetch_group_rows(export, group_name, dt_from, dt_to) ==
    SelectSeq(export, LAMBDA r : /\ r.GroupName = group_name
                                 /\ toordinal(dt_from.date) <= toordinal(r.CreatedDate)
                                 /\ toordinal(r.CreatedDate) < toordinal(dt_to.date))

\* the count rows_to_lines returns: the distinct URLs of the rows, here
\* those of the link column
link_count(rows) ==
    Cardinality({ Val(rows[k].Links) : k \in { j \in 1..Len(rows) : Truthy(rows[j].Links) } })

\* the unique key of WeeklySummaries; the table is declared outside the
\* sources at hand, the key is the one the specification names
SummaryKey(row) == <<row.scope, row.group_name, row.week_start>>

\* upsert_summary: INSERT ... ON DUPLICATE KEY UPDATE of the six value columns
upsert_summary_InsertOnly(rows, new) == Append(rows, new)
upsert_summary(rows, new) ==
    IF \E k \in 1..Len(rows) : SummaryKey(rows[k]) = SummaryKey(new)
    THEN LET k == CHOOSE j \in 1..Len(rows) : SummaryKey(rows[j]) = SummaryKey(new)
         IN  [rows EXCEPT ![k] = [@ EXCEPT !.message_count = new.message_count,
                                           !.participants = new.participants,
                                           !.links = new.links,
                                           !.keywords = new.keywords,
                                           !.summary = new.summary,
                                           !.highlights = new.highlights]]
    ELSE Append(rows, new)

\* the arguments of upsert_summary as run passes them
SummaryRow(scope, group_name, week_start, message_count, links, digest) ==
    [scope |-> scope,
     canonical |-> "Indie Parents Pack",
     group_name |-> group_name,
     week_start |-> week_start,
     message_count |-> message_count,
     participants |-> 0,
     links |-> links,
     keywords |-> digest.keywords,
     summary |-> digest.summary,
     highlights |-> digest.highlights]

\* the digest run stores for a group without messages
NoMessagesDigest ==
    [summary |-> "(No messages this week.)", highlights |-> "[]", keywords |-> "[]"]

\* what summarize_group_lines and the rollup call can give: the clamped
\* summary of the model's answer, the empty summary when the call failed
ModelDigests ==
    { [summary |-> Val(clamp_words(Some(t), TARGET_WORDS_HIGH)),
       highlights |-> "[]", keywords |-> "[]"] : t \in { <<>>, <<97, 32, 98>> } }

\* the upserts of a run that is not interrupted, in order: one per
\* discovered group, then the rollup when a group had messages
RECURSIVE GroupUpserts(_, _, _, _)
GroupUpserts(export, names, bounds, digests) ==
    IF names = <<>> THEN <<>>
    ELSE LET rows == fetch_group_rows(export, Head(names), bounds.week_start_ist,
                                      bounds.week_end_ist)
             row == IF rows = <<>>
                    THEN SummaryRow("group", Some(Head(names)), bounds.week_start_date,
                                    0, 0, NoMessagesDigest)
                    ELSE SummaryRow("group", Some(Head(names)), bounds.week_start_date,
                                    Len(rows), link_count(rows), digests[Head(names)])
         IN  <<row>> \o GroupUpserts(export, Tail(names), bounds, digests)

RunUpserts(export, bounds, digests, rollup) ==
    LET groups == GroupUpserts(export, discover_indie_group_names(export), bounds, digests)
        rollup_items == SelectSeq(groups, LAMBDA g : g.message_count > 0)
    IN  IF rollup_items = <<>> THEN groups
        ELSE Append(groups,
                    SummaryRow("rollup", None, bounds.week_start_date,
                               SumSeq([k \in 1..Len(rollup_items) |->
                                          rollup_items[k].message_count]),
                               SumSeq([k \in 1..Len(rollup_items) |->
                                          rollup_items[k].links]),
                               rollup))

RECURSIVE ApplyUpserts(_, _)
ApplyUpserts(rows, upserts) ==
    IF upserts = <<>> THEN rows
    ELSE ApplyUpserts(upsert_summary(rows, Head(upserts)), Tail(upserts))

\* days of CreatedDate: the Sunday before the week and the Sunday of the week
ExportDates == { <<2025, 8, 3>>, <<2025, 8, 10>> }

\* contents of WhatsAppExport
ExportTables ==
    UNION { [1..n -> [GroupName : { GroupNames[1], GroupNames[2] },
                      CreatedDate : ExportDates,
                      Links : { Some(<<117>>) }]] : n \in 0..MaxStoreRows }

\* --week-start values of the runs: two days of the same week
WeekStartArgs == { <<2025, 8, 4>>, <<2025, 8, 6>> }

InitStore ==
    /\ RunIdleBut
    /\ table \in { Some(t) : t \in ExportTables }
    /\ store = <<>>
    /\ call = None
    /\ ret = None

\* run(week_start_str, dry_run): the connection commits every statement
\* (autocommit), so a run that raises keeps the rows it has written and
\* the rollback of a dry run undoes nothing
RunWeekly ==
    /\ pc = "idle"
    /\ \E week_start_str \in WeekStartArgs :
        \E bounds \in { compute_bounds(week_start_str) } :
          \E dry_run \in BOOLEAN,
             digests \in [{ GroupNames[1], GroupNames[2] } -> ModelDigests],
             rollup \in ModelDigests :
            \E upserts \in { RunUpserts(Val(table), bounds, digests, rollup) } :
              \E done \in 0..Len(upserts) :
                /\ store' = ApplyUpserts(store, SubSeq(upserts, 1, done))
                /\ call' = Some([fn |-> "run", week_start_str |-> week_start_str,
                                 dry_run |-> dry_run])
                /\ ret' = Some([raised |-> done < Len(upserts)])
    /\ UNCHANGED runVars

SpecStore == InitStore /\ [][RunWeekly]_vars

\* the keys held by the rows
Keys(rows) == { SummaryKey(rows[k]) : k \in 1..Len(rows) }

\* the keys of the window of 2025-08-04 for the export table: one per group
\* of the table, and the rollup when a row lies in the window
WindowKeys ==
    LET export == Val(table)
        in_window == { k \in 1..Len(export) :
                          export[k].CreatedDate = <<2025, 8, 10>> }
    IN  { <<"group", Some(export[k].GroupName), <<2025, 8, 4>> >> : k \in 1..Len(export) }
        \cup (IF in_window = {} THEN {}
              ELSE { <<"rollup", None, <<2025, 8, 4>> >> })

----------------------------------------------------------------------------
(* Links of the corpus (src/app.py:425-426, 710-720) *)

\* the URLs held by the groups of the corpus d
DistinctLinks(d) == UNION { { d[k].links[j] : j \in 1..Len(d[k].links) } : k \in 1..Len(d) }

\* C27: the links collected for a group hold no URL twice, so the
\* total_links of a payload is the number of distinct URLs of the corpus,
\* however many rows repeat one link.
C27_LinksAreDistinct ==
    /\ \A k \in 1..Len(groups_data) :
          \A i, j \in 1..Len(groups_data[k].links) :
              groups_data[k].links[i] = groups_data[k].links[j] => i = j
    /\ \A k \in 1..Len(sent) :
          sent[k].total_links = Cardinality(DistinctLinks(groups_data))

----------------------------------------------------------------------------
(* The local file as the fallback of a failed delivery                     *)
(* (src/app.py:653-665, 694-705, 726-731)                                  *)

\* send_to_bubble has returned False
DeliveryFailed == Len(sent) = 1 /\ bubble_success = Some(FALSE)

\* C28: whenever the delivery has failed, the summary text the payload
\* carries has already been written to the local file named after the week
\* start, on the fallback paths as on the success path.
C28_SavedWhenDeliveryFails ==
    DeliveryFailed =>
        saved = Some([week_start |-> week.week_start, content |-> sent[1].summary_text])

----------------------------------------------------------------------------
(* The database connection (src/app.py:364-433) *)

\* control is inside get_indie_groups_data, after the connection was opened
InFetch == pc \in {"cursor", "debug_query", "main_query"}

\* C29: every connection get_indie_groups_data opens is closed by the time
\* the function is left: on the normal return, on the early return when no
\* group matches, and when creating the cursor, running a query or
\* processing the rows raises.
C29_ConnectionClosed == conn = "open" => InFetch

----------------------------------------------------------------------------
(* The indicators of success (src/app.py:710-739) *)

====
